---- MODULE Spec2Model ----
(***************************************************************************)
(* Model of the DPX loader of plug-ins/common/file-dpx.c: dpx_load calls   *)
(* load_image on one input file and turns its result into the procedure's  *)
(* return values.                                                          *)
(*                                                                         *)
(* In the source the body of load_image between the magic read (line 208)  *)
(* and "return image" (line 280) is enclosed in one comment that opens on  *)
(* line 210 and closes on line 279.  The compiled function therefore       *)
(* opens the file, reads the 4 magic bytes and returns the initial value   *)
(* of image.  The model follows the compiled code.                         *)
(***************************************************************************)
EXTENDS Integers, Sequences, FiniteSets, TLC

\* ------------------------------------------------------------------ bounds
MaxWidth  == 2
MaxHeight == 2
MaxRows   == 2

\* ------------------------------------------------------- program constants
\* number of bytes of magic_number[] asked of fread
MagicSize == 4
\* ceiling named by the dimension check of the commented-out body; the value
\* is the one libgimpbase defines
GIMP_MAX_IMAGE_SIZE == 524288

\* ----------------------------------------------------------- input files
\* The layout of an input file: magic at 0, width at 772, height at 776,
\* pixel rows from 780 on, every 16-bit sample stored high byte first.
SDPX == <<83, 68, 80, 88>>
XPDS == <<88, 80, 68, 83>>
sdpx == <<115, 100, 112, 120>>
Magics == {SDPX, XPDS, sdpx}

\* offset of the width field; the height field follows it
DimensionsOffset == 772
\* the header ends after the two 4-byte dimension fields
HeaderSize == DimensionsOffset + 4 + 4

Pixels == {<<256, 512, 768, 65535>>, <<1024, 1280, 1536, 65535>>}

\* a 32-bit header field as the file stores it: 4 bytes, high byte first
EncodeBE32(n) ==
  <<n \div 16777216, (n \div 65536) % 256, (n \div 256) % 256, n % 256>>

\* the field 0xFFFFFFFF
U32MaxField == <<255, 255, 255, 255>>

\* the low 24 bits of a header field
Low24(b) == (b[2] * 256 + b[3]) * 256 + b[4]

\* the header field is 0
IsZeroDim(b) == b[1] = 0 /\ Low24(b) = 0

\* the header field is above the ceiling GIMP_MAX_IMAGE_SIZE
ExceedsMax(b) == b[1] > 0 \/ Low24(b) > GIMP_MAX_IMAGE_SIZE

Widths ==
  {EncodeBE32(n) : n \in (0..MaxWidth) \cup
                         {GIMP_MAX_IMAGE_SIZE, GIMP_MAX_IMAGE_SIZE + 1}}
    \cup {U32MaxField}
Heights ==
  {EncodeBE32(n) : n \in (0..MaxHeight) \cup
                         {GIMP_MAX_IMAGE_SIZE, GIMP_MAX_IMAGE_SIZE + 1}}
    \cup {U32MaxField}

\* a row of w pixels, as native samples
RowsOfWidth(w) == [1..w -> Pixels]

\* the complete rows a file can carry within the bounds, w its width field
DataOfWidth(w) ==
  IF w[1] = 0 /\ Low24(w) \in 1..MaxWidth
    THEN UNION {[1..n -> RowsOfWidth(Low24(w))] : n \in 0..MaxRows}
    ELSE {<<>>}

\* bytes of an incomplete last row
Tails(w) == IF IsZeroDim(w) THEN {0} ELSE {0, 4}

\* big-endian encoding of one 16-bit sample, as the file stores it
EncodeBE16(s) == <<s \div 256, s % 256>>

\* files that end inside the header
ShortFiles ==
  {[openable |-> o, len |-> l, magic |-> m, width |-> EncodeBE32(0),
    height |-> EncodeBE32(0), rows |-> <<>>] :
     o \in BOOLEAN, l \in (0..(MagicSize - 1)) \cup {MagicSize, HeaderSize - 1},
     m \in Magics}

\* files with a complete header, followed by Len(rows) complete rows
FullFiles ==
  UNION { UNION { UNION {
    {[openable |-> o,
      len |-> HeaderSize + (IF d = <<>> THEN 0 ELSE Len(d) * Low24(w) * 8) + t,
      magic |-> m, width |-> w, height |-> h, rows |-> d] :
        o \in BOOLEAN, m \in Magics, t \in Tails(w)}
    : d \in DataOfWidth(w)} : h \in Heights} : w \in Widths}

Files == ShortFiles \cup FullFiles

\* ------------------------------------------------------------------ state
VARIABLES
  file,          \* the input file handed to dpx_load
  pc,            \* position in dpx_load / load_image
  fp,            \* the FILE* of load_image: "null", "open", "closed"
  pos,           \* file position of fp
  nreads,        \* number of fread calls made on fp
  magic_number,  \* the local magic_number[4]; <<>> while not filled
  image,         \* the local image of load_image: <<>> is NULL
  error,         \* the caller's GError*: <<>> is NULL
  return_vals    \* what dpx_load returns: <<>> until it returns

vars == <<file, pc, fp, pos, nreads, magic_number, image, error, return_vals>>

\* values g_file_error_from_errno can yield for the errno left behind
FileErrorCodes == {"G_FILE_ERROR_NOENT", "G_FILE_ERROR_ACCES", "G_FILE_ERROR_FAILED"}

MsgCouldNotOpen == "Could not open '%s' for reading: %s"
MsgHeader       == "Failed to read Dpx header"

Min(a, b) == IF a < b THEN a ELSE b

\* fread (ptr, size, nmemb, fp): the number of complete items read
fread_partial(len, at, size, nmemb) ==
  IF len - at > 0 THEN nmemb ELSE 0

fread(len, at, size, nmemb) ==
  Min((len - at) \div size, nmemb)

Init ==
  /\ file \in Files
  /\ pc = "dpx_load"
  /\ fp = "null"
  /\ pos = 0
  /\ nreads = 0
  /\ magic_number = <<>>
  /\ image = <<>>
  /\ error = <<>>
  /\ return_vals = <<>>

\* g_fopen fails: the error is set and NULL is returned
load_image_open_failed ==
  /\ pc = "dpx_load"
  /\ ~file.openable
  /\ \E c \in FileErrorCodes :
       error' = <<[domain |-> "G_FILE_ERROR", code |-> c,
                   message |-> MsgCouldNotOpen]>>
  /\ pc' = "load_image_returned"
  /\ UNCHANGED <<file, fp, pos, nreads, magic_number, image, return_vals>>

\* g_fopen succeeds
load_image_open ==
  /\ pc = "dpx_load"
  /\ file.openable
  /\ fp' = "open"
  /\ pc' = "read_header"
  /\ UNCHANGED <<file, pos, nreads, magic_number, image, error, return_vals>>

\* fread (magic_number, 4, 1, fp) and the branch on its result
load_image_read_magic ==
  /\ pc = "read_header"
  /\ nreads' = nreads + 1
  /\ pos' = Min(file.len, pos + MagicSize)
  /\ IF fread(file.len, pos, MagicSize, 1) = 0
       THEN /\ \E c \in FileErrorCodes :
                 error' = <<[domain |-> "G_FILE_ERROR", code |-> c,
                             message |-> MsgHeader]>>
            /\ fp' = "closed"
            /\ pc' = "load_image_returned"
            /\ UNCHANGED magic_number
       ELSE /\ magic_number' = file.magic
            /\ pc' = "return_image"
            /\ UNCHANGED <<fp, error>>
  /\ UNCHANGED <<file, image, return_vals>>

\* return image, reached right after the magic was read
load_image_return ==
  /\ pc = "return_image"
  /\ pc' = "load_image_returned"
  /\ UNCHANGED <<file, fp, pos, nreads, magic_number, image, error, return_vals>>

\* dpx_load builds the return values from what load_image returned
dpx_load_return ==
  /\ pc = "load_image_returned"
  /\ return_vals' =
       IF image = <<>>
         THEN <<[status |-> "GIMP_PDB_EXECUTION_ERROR", error |-> error,
                 image |-> <<>>]>>
         ELSE <<[status |-> "GIMP_PDB_SUCCESS", error |-> <<>>,
                 image |-> image]>>
  /\ pc' = "done"
  /\ UNCHANGED <<file, fp, pos, nreads, magic_number, image, error>>

Next ==
  \/ load_image_open_failed
  \/ load_image_open
  \/ load_image_read_magic
  \/ load_image_return
  \/ dpx_load_return

Spec == Init /\ [][Next]_vars

TypeOK ==
  /\ file \in Files
  /\ pc \in {"dpx_load", "read_header", "return_image", "load_image_returned", "done"}
  /\ fp \in {"null", "open", "closed"}
  /\ pos \in 0..MagicSize
  /\ nreads \in 0..1
  /\ Len(image) <= 1
  /\ Len(error) <= 1
  /\ Len(return_vals) <= 1

\* ------------------------------------------------- vocabulary of the claims
\* the file can be opened and holds the whole 780-byte header
HasHeader(f) == f.openable /\ f.len >= HeaderSize

\* a header field in [1, GIMP_MAX_IMAGE_SIZE]
InRange(b) == ~IsZeroDim(b) /\ ~ExceedsMax(b)

\* magic "SDPX" and both dimensions accepted
ValidHeader(f) ==
  HasHeader(f) /\ f.magic = SDPX /\ InRange(f.width) /\ InRange(f.height)

\* a valid header followed by at least height complete rows
CompleteFile(f) == ValidHeader(f) /\ Len(f.rows) >= Low24(f.height)

\* a valid header followed by fewer complete rows than it declares
ShortOfRows(f) == ValidHeader(f) /\ Len(f.rows) < Low24(f.height)

\* the pixel bytes the file stores for its complete rows: per row, per
\* pixel, per sample the two bytes of the sample
PixelBytes(f) ==
  [i \in 1..Len(f.rows) |->
     [j \in 1..Len(f.rows[i]) |->
        [k \in 1..4 |-> EncodeBE16(f.rows[i][j][k])]]]

\* the native value of two bytes stored high byte first
FromBE16(b) == b[1] * 256 + b[2]

\* the error kind a GError of load_image stands for
ErrorKind(e) ==
  IF e = <<>> THEN "none"
  ELSE IF e[1].message = MsgHeader THEN "TruncatedHeader"
  ELSE IF e[1].message = MsgCouldNotOpen THEN "IOError"
  ELSE "other"

\* load_image has returned to dpx_load
Returned == pc \in {"load_image_returned", "done"}

\* the image dpx_load hands to its caller, <<>> if none
Delivered == IF return_vals = <<>> THEN <<>> ELSE return_vals[1].image

\* ------------------------------------------------------------------ claims

\* C1: for every openable file with magic "SDPX", width and height in
\* [1, MAX_DIM] and height complete rows of pixel data, load_image returns
\* a non-null image of exactly width x height pixels.
C1_ValidFileDecodes ==
  (Returned /\ CompleteFile(file)) =>
     /\ image # <<>>
     /\ image[1].width = Low24(file.width)
     /\ image[1].height = Low24(file.height)

\* C2: for a file whose first 4 bytes are not S,D,P,X the decode fails
\* with a BadMagic error and reads nothing beyond the 4 magic bytes.
C2_BadMagicRejected ==
  (Returned /\ file.openable /\ file.len >= MagicSize /\ file.magic # SDPX) =>
     /\ image = <<>>
     /\ ErrorKind(error) = "BadMagic"
     /\ pos <= MagicSize

\* C3: for a valid header followed by fewer complete rows than declared
\* the decode fails with PrematureEOF and the caller receives no image.
C3_PrematureEOF ==
  (Returned /\ ShortOfRows(file)) =>
     /\ image = <<>>
     /\ ErrorKind(error) = "PrematureEOF"
     /\ Delivered = <<>>

\* C4: whenever load_image returns NULL an error has been set, so dpx_load
\* never reports an execution error with an empty error value.
C4_NullImpliesError ==
  /\ (Returned /\ image = <<>>) => error # <<>>
  /\ (pc = "done" /\ return_vals[1].status = "GIMP_PDB_EXECUTION_ERROR")
        => return_vals[1].error # <<>>

\* C5: a header whose width or height exceeds MAX_DIM is rejected with
\* DimensionsTooLarge or DimensionOverflow and no image is created.
C5_DimensionGuard ==
  (Returned /\ HasHeader(file) /\ file.magic = SDPX
     /\ (ExceedsMax(file.width) \/ ExceedsMax(file.height))) =>
     /\ image = <<>>
     /\ ErrorKind(error) \in {"DimensionsTooLarge", "DimensionOverflow"}

\* C6: a header declaring width = 0 or height = 0 is rejected as a
\* dimension error and no image is created with a zero dimension.
C6_ZeroDimensionRejected ==
  (Returned /\ HasHeader(file) /\ file.magic = SDPX
     /\ (IsZeroDim(file.width) \/ IsZeroDim(file.height))) =>
     /\ image = <<>>
     /\ ErrorKind(error) \in {"DimensionsTooLarge", "DimensionOverflow"}

\* C7: the rows the decoder delivers are the file's big-endian samples
\* converted to native order, which are the samples that were encoded, in
\* the same R,G,B,A order.
C7_ByteOrderRoundTrip ==
  (Returned /\ CompleteFile(file)) =>
     /\ image # <<>>
     /\ \A i \in 1..Low24(file.height) :
          \A j \in 1..Low24(file.width) : \A k \in 1..4 :
            /\ image[1].rows[i][j][k] = FromBE16(PixelBytes(file)[i][j][k])
            /\ image[1].rows[i][j][k] = file.rows[i][j][k]

\* C8: if fewer than 4 bytes are available at the start of the file the
\* header read fails: the header error is set, no image is returned, the
\* file is closed and nothing further is read.
C8_TruncatedMagic ==
  (fp # "null" /\ file.len < MagicSize) =>
     /\ pc # "return_image"
     /\ nreads <= 1
     /\ magic_number = <<>>
     /\ Returned =>
          /\ ErrorKind(error) = "TruncatedHeader"
          /\ image = <<>>
          /\ fp = "closed"
          /\ nreads = 1
          /\ pos = file.len
     /\ pc = "done" =>
          /\ return_vals[1].status = "GIMP_PDB_EXECUTION_ERROR"
          /\ return_vals[1].error = error
          /\ return_vals[1].image = <<>>

\* a file of 1 to 3 bytes was opened, the read failed and dpx_load returned
C8_Witness ==
  /\ pc = "done"
  /\ file.len \in 1..(MagicSize - 1)
  /\ nreads = 1
  /\ fp = "closed"
  /\ ErrorKind(error) = "TruncatedHeader"

\* C9: every decode ends in exactly one of the terminal states Done (an
\* image with all height rows written, in order) or Failed (no image and
\* an error reported).
C9_DoneOrFailed ==
  Returned =>
     \/ /\ image # <<>>
        /\ Len(image[1].rows) = Low24(file.height)
        /\ error = <<>>
     \/ /\ image = <<>>
        /\ error # <<>>

\* C10: on every return of load_image after the file was opened, the file
\* has been closed.
C10_FileClosedOnReturn ==
  (Returned /\ fp # "null") => fp = "closed"
====
